---- MODULE Spec2Model ----
(***************************************************************************)
(* A model of the Python binding layer of hail: the Env handle holder and  *)
(* the py4j error wrapper (hail/java.py), the distribution parameter       *)
(* holders (hail/stats.py) and the type tags with their validation and     *)
(* marshaling (hail/expr.py).                                              *)
(*                                                                         *)
(* Three specifications share the variables:                               *)
(*   SpecEnv    the Env accessors and handle_py4j                          *)
(*   SpecStats  the distribution holders                                   *)
(*   Spec       the type tags: _typecheck, _convert_to_j, _convert_to_py   *)
(*              and Type._from_java                                        *)
(***************************************************************************)
EXTENDS Integers, Sequences, FiniteSets, TLC

VARIABLES
    env,        \* the class attributes of Env (java.py:8-13)
    instances,  \* the classes in Singleton._instances (expr.py:83)
    dist,       \* the distribution holder bound by the last successful constructor
    last        \* the last call: its operation, arguments, outcome, remote calls

vars == <<env, instances, dist, last>>

-----------------------------------------------------------------------------
(* Python's None as the value of an Env attribute or of a name.            *)
None == "None"

(* The handles the context stores in Env. Each is an ordinary Python       *)
(* object (py4j JVMView, JavaGateway, JavaPackage, JavaObject and the      *)
(* HailContext), none of which defines __nonzero__ or __len__, so `not h`  *)
(* is true only of None.                                                   *)
JvmHandle == "jvm"
GatewayHandle == "gateway"
HcHandle == "hc"
HailPackage == "jvm.is.hail"
JUtils == "jvm.is.hail.utils.package$.MODULE$"

EnvFields == {"jvm", "gateway", "hc"}

HandleOf(f) ==
    CASE f = "jvm" -> JvmHandle
      [] f = "gateway" -> GatewayHandle
      [] f = "hc" -> HcHandle

(* class Env: every attribute starts as None.                              *)
EnvInit ==
    [jvm |-> None, gateway |-> None, hail_package |-> None,
     jutils |-> None, hc |-> None]

(* The outcome of a call: the exception raised ("none" when it returns),   *)
(* the value returned (<<v>>, and <<>> when it raises), the Env it leaves  *)
(* and the remote calls it made.                                           *)
Returns(v, e, cs) == [exc |-> "none", ret |-> <<v>>, env |-> e, calls |-> cs]
Raises(x, e, cs) == [exc |-> x, ret |-> <<>>, env |-> e, calls |-> cs]

NoContext == "EnvironmentError: no Hail context initialized, create one first"

(* Env.jvm()                                                               *)
Env_jvm(e) ==
    IF e.jvm = None THEN Raises(NoContext, e, <<>>) ELSE Returns(e.jvm, e, <<>>)

Env_gateway_wrong_field(e) ==
    IF e.jvm = None THEN Raises(NoContext, e, <<>>)
    ELSE Returns(e.gateway, e, <<>>)

(* Env.gateway()                                                           *)
Env_gateway(e) ==
    IF e.gateway = None THEN Raises(NoContext, e, <<>>)
    ELSE Returns(e.gateway, e, <<>>)

(* Env.hc()                                                                *)
Env_hc(e) ==
    IF e.hc = None THEN Raises(NoContext, e, <<>>) ELSE Returns(e.hc, e, <<>>)

(* Env.hail(): the package handle, cached on first use.                    *)
Env_hail(e) ==
    IF e.hail_package = None
    THEN LET j == Env_jvm(e)
         IN  IF j.exc # "none" THEN j
             ELSE Returns(HailPackage, [e EXCEPT !.hail_package = HailPackage], <<>>)
    ELSE Returns(e.hail_package, e, <<>>)

(* Env.jutils(): the utils package object, cached on first use.            *)
Env_jutils(e) ==
    IF e.jutils = None
    THEN LET h == Env_hail(e)
         IN  IF h.exc # "none" THEN h
             ELSE Returns(JUtils, [h.env EXCEPT !.jutils = JUtils], <<>>)
    ELSE Returns(e.jutils, e, <<>>)

-----------------------------------------------------------------------------
(* Numbers of the distribution parameters: Python int and float, the       *)
(* value counted in halves (n = 1 is 0.5), and the float NaN, with which   *)
(* every ordering comparison is false.                                     *)
PyInt(k) == [ty |-> "int", nan |-> FALSE, n |-> 2 * k]
PyFloat(h) == [ty |-> "float", nan |-> FALSE, n |-> h]
NaN == [ty |-> "float", nan |-> TRUE, n |-> 0]

Lt(x, y) == ~x.nan /\ ~y.nan /\ x.n < y.n
Gt(x, y) == ~x.nan /\ ~y.nan /\ x.n > y.n
Ge(x, y) == ~x.nan /\ ~y.nan /\ x.n >= y.n
Le(x, y) == ~x.nan /\ ~y.nan /\ x.n <= y.n

(* float(x)                                                                *)
float(x) == [x EXCEPT !.ty = "float"]

(* The arguments tried: -1, 0, 0.5, 1, 2 and NaN.                          *)
NumVals == {PyInt(-1), PyInt(0), PyFloat(1), PyInt(1), PyInt(2), NaN}
ShapeVals == {PyInt(1), PyFloat(5)}

RemoteCall(target, args) == [target |-> target, args |-> args]

(* BetaDist.__init__                                                       *)
BetaDist_init(a, b) ==
    Returns([cls |-> "BetaDist", a |-> a, b |-> b], env, <<>>)

(* UniformDist.__init__                                                    *)
UniformDist_init(minVal, maxVal) ==
    IF Ge(minVal, maxVal)
    THEN Raises("ValueError: min must be less than max", env, <<>>)
    ELSE Returns([cls |-> "UniformDist", minVal |-> minVal, maxVal |-> maxVal],
                 env, <<>>)

(* TruncatedBetaDist.__init__                                              *)
TruncatedBetaDist_init(a, b, minVal, maxVal) ==
    IF Ge(minVal, maxVal)
    THEN Raises("ValueError: min must be less than max", env, <<>>)
    ELSE IF Lt(minVal, PyInt(0))
    THEN Raises("ValueError: min cannot be less than 0", env, <<>>)
    ELSE IF Gt(maxVal, PyInt(1))
    THEN Raises("ValueError: max cannot be greater than 1", env, <<>>)
    ELSE Returns([cls |-> "TruncatedBetaDist", minVal |-> minVal,
                  maxVal |-> maxVal, a |-> a, b |-> b], env, <<>>)

(* The stored parameters in the order the remote constructor takes them.   *)
JrepArgs(d) ==
    CASE d.cls = "BetaDist" -> <<float(d.a), float(d.b)>>
      [] d.cls = "UniformDist" -> <<float(d.minVal), float(d.maxVal)>>
      [] d.cls = "TruncatedBetaDist" ->
            <<float(d.a), float(d.b), float(d.minVal), float(d.maxVal)>>

jrep_swapped(d) ==
    LET h == Env_hail(env)
        c == RemoteCall("is.hail.stats." \o d.cls \o ".apply",
                        [i \in 1..Len(JrepArgs(d)) |->
                            JrepArgs(d)[Len(JrepArgs(d)) + 1 - i]])
    IN  IF h.exc # "none" THEN h
        ELSE Returns([jobj |-> c], h.env, <<c>>)

(* BetaDist._jrep, UniformDist._jrep, TruncatedBetaDist._jrep              *)
jrep(d) ==
    LET h == Env_hail(env)
        c == RemoteCall("is.hail.stats." \o d.cls \o ".apply", JrepArgs(d))
    IN  IF h.exc # "none" THEN h
        ELSE Returns([jobj |-> c], h.env, <<c>>)

-----------------------------------------------------------------------------
(* No holder is bound yet.                                                 *)
NoDist == [cls |-> "None"]

(* The record of a call.                                                   *)
Call(op, args, r) ==
    [op |-> op, args |-> args, exc |-> r.exc, ret |-> r.ret, calls |-> r.calls]

NoCall == [op |-> "none", args |-> <<>>, exc |-> "none", ret |-> <<>>, calls |-> <<>>]

(* The context constructor stores its handles in Env one assignment at a   *)
(* time, so a call made between two assignments sees some of them unset.   *)
SetEnv(f) ==
    /\ env[f] = None
    /\ env' = [env EXCEPT ![f] = HandleOf(f)]
    /\ last' = [NoCall EXCEPT !.op = "Env._" \o f \o " = handle"]
    /\ UNCHANGED <<dist, instances>>

Construct(op, args, r) ==
    /\ dist' = IF r.exc = "none" THEN r.ret[1] ELSE dist
    /\ env' = r.env
    /\ last' = Call(op, args, r)
    /\ UNCHANGED instances

NewBetaDist ==
    \E a \in ShapeVals, b \in ShapeVals :
        Construct("BetaDist.__init__", <<a, b>>, BetaDist_init(a, b))

NewUniformDist ==
    \E lo \in NumVals, hi \in NumVals :
        Construct("UniformDist.__init__", <<lo, hi>>, UniformDist_init(lo, hi))

NewTruncatedBetaDist ==
    \E a \in ShapeVals, b \in {PyInt(2)}, lo \in NumVals, hi \in NumVals :
        Construct("TruncatedBetaDist.__init__", <<a, b, lo, hi>>,
                  TruncatedBetaDist_init(a, b, lo, hi))

CallJrep ==
    /\ dist # NoDist
    /\ LET r == jrep(dist)
       IN  /\ env' = r.env
           /\ last' = Call("_jrep", <<dist>>, r)
    /\ UNCHANGED <<dist, instances>>

InitStats == env = EnvInit /\ instances = {} /\ dist = NoDist /\ last = NoCall

NextStats ==
    \/ SetEnv("jvm")
    \/ NewBetaDist
    \/ NewUniformDist
    \/ NewTruncatedBetaDist
    \/ CallJrep

SpecStats == InitStats /\ [][NextStats]_vars

-----------------------------------------------------------------------------
(* The distribution holders.                                               *)

CtorOps == {"BetaDist.__init__", "UniformDist.__init__", "TruncatedBetaDist.__init__"}

(* The same number: the same value, or NaN on both sides.                  *)
SameNum(x, y) == x.nan = y.nan /\ (~x.nan => x.n = y.n)

(* The parameters of holder d in the order (a, b), (minVal, maxVal) or     *)
(* (a, b, minVal, maxVal).                                                 *)
StoredInOrder(d) ==
    IF d.cls = "BetaDist" THEN <<d.a, d.b>>
    ELSE IF d.cls = "UniformDist" THEN <<d.minVal, d.maxVal>>
    ELSE <<d.a, d.b, d.minVal, d.maxVal>>

OneConstructorCall(d, c) ==
    /\ Len(c) = 1
    /\ c[1].target = "is.hail.stats." \o d.cls \o ".apply"
    /\ Len(c[1].args) = Len(StoredInOrder(d))
    /\ \A i \in 1..Len(c[1].args) :
          c[1].args[i].ty = "float" /\ SameNum(c[1].args[i], StoredInOrder(d)[i])

ConstructorIsLocal ==
    last'.op \in CtorOps =>
        /\ last'.calls = <<>>
        /\ env' = env
        /\ (last'.op = "BetaDist.__init__" => last'.exc = "none")

(* C4 as stated: constructing a holder makes no remote call and leaves Env *)
(* alone, and every call of _jrep makes exactly one remote constructor     *)
(* call with the stored parameters in order, leaving the holder unchanged. *)
C4_JrepAlwaysOneCall ==
    [][/\ ConstructorIsLocal
       /\ last'.op = "_jrep" =>
            /\ last'.exc = "none"
            /\ OneConstructorCall(dist, last'.calls)
            /\ dist' = dist]_vars

(* C4 amended: constructing a holder makes no remote call and leaves Env   *)
(* alone; a call of _jrep made while the hail package handle is cached or  *)
(* the JVM handle is set makes exactly one remote constructor call with    *)
(* the stored parameters in order; a call made with neither raises         *)
(* EnvironmentError and makes no remote call; either way the holder is     *)
(* unchanged.                                                              *)
C4_JrepOneCallWithContext ==
    [][/\ ConstructorIsLocal
       /\ last'.op = "_jrep" =>
            /\ dist' = dist
            /\ IF env.hail_package # None \/ env.jvm # None
               THEN last'.exc = "none" /\ OneConstructorCall(dist, last'.calls)
               ELSE last'.exc = NoContext /\ last'.calls = <<>>]_vars

C4_Witness ==
    /\ last.op = "_jrep"
    /\ last.exc = "none"
    /\ dist.cls = "TruncatedBetaDist"
    /\ dist.a # dist.b
    /\ Len(last.calls) = 1

(* C5: TruncatedBetaDist(a, b, minVal, maxVal) constructs a holder if and  *)
(* only if 0 <= minVal < maxVal <= 1; otherwise it raises ValueError with  *)
(* the reason chosen in the fixed order min >= max, min < 0, max > 1.      *)
C5_TruncatedBetaValidated ==
    /\ last.op = "TruncatedBetaDist.__init__" =>
        LET lo == last.args[3]
            hi == last.args[4]
            valid == Le(PyInt(0), lo) /\ Lt(lo, hi) /\ Le(hi, PyInt(1))
        IN  /\ (last.exc = "none") <=> valid
            /\ ~valid =>
                 last.exc =
                    IF Ge(lo, hi) THEN "ValueError: min must be less than max"
                    ELSE IF Lt(lo, PyInt(0)) THEN "ValueError: min cannot be less than 0"
                    ELSE "ValueError: max cannot be greater than 1"
    /\ dist.cls = "TruncatedBetaDist" =>
        Le(PyInt(0), dist.minVal) /\ Lt(dist.minVal, dist.maxVal)
            /\ Le(dist.maxVal, PyInt(1))

(* With ordered arguments (no NaN) the constructor accepts exactly the     *)
(* intervals inside [0, 1].                                                *)
TruncatedBetaValidatedOrdered ==
    (/\ last.op = "TruncatedBetaDist.__init__"
     /\ ~last.args[3].nan /\ ~last.args[4].nan) =>
        ((last.exc = "none") <=>
            (/\ Le(PyInt(0), last.args[3])
             /\ Lt(last.args[3], last.args[4])
             /\ Le(last.args[4], PyInt(1))))

(* With ordered arguments (no NaN) the constructor accepts exactly         *)
(* minVal < maxVal.                                                        *)
UniformValidatedOrdered ==
    (/\ last.op = "UniformDist.__init__"
     /\ ~last.args[1].nan /\ ~last.args[2].nan) =>
        ((last.exc = "none") <=> Lt(last.args[1], last.args[2]))

(* C6: UniformDist(minVal, maxVal) constructs a holder if and only if      *)
(* minVal < maxVal, raises ValueError when minVal >= maxVal, and every     *)
(* existing UniformDist satisfies minVal < maxVal.                         *)
C6_UniformValidated ==
    /\ last.op = "UniformDist.__init__" =>
        /\ (last.exc = "none") <=> Lt(last.args[1], last.args[2])
        /\ Ge(last.args[1], last.args[2]) =>
              last.exc = "ValueError: min must be less than max"
    /\ dist.cls = "UniformDist" => Lt(dist.minVal, dist.maxVal)

-----------------------------------------------------------------------------
(* handle_py4j and the Env accessors.                                      *)

(* A text as the sequence of its words; s.startswith(p).                   *)
StartsWith(s, p) == Len(s) >= Len(p) /\ SubSeq(s, 1, Len(p)) = p

CallingPrefix == <<"An", "error", "occurred", "while", "calling">>

(* py4j.protocol: Py4JJavaError and Py4JNetworkError derive from           *)
(* Py4JError.                                                              *)
IsInstance(type, cls) ==
    \/ type = cls
    \/ cls = "Py4JError" /\ type \in {"Py4JJavaError", "Py4JNetworkError"}

(* What the wrapped function does: it returns, or raises the exception     *)
(* named by type with args[0] = msg.                                       *)
Return(v) == [kind |-> "return", type |-> "none", msg |-> <<>>, val |-> v]
Raise(type, msg) == [kind |-> "raise", type |-> type, msg |-> msg, val |-> None]

RECURSIVE Join(_)
Join(ws) == IF ws = <<>> THEN "" ELSE " " \o Head(ws) \o Join(Tail(ws))

(* The exception the function raised, as raised and as re-raised: its      *)
(* class and its message.                                                  *)
ExcOf(f) == f.type \o ":" \o Join(f.msg)
FatalError == "FatalError"

FuncOutcomes ==
    {Return("r"),
     Raise("Py4JJavaError", CallingPrefix \o <<"o1.f">>),
     Raise("Py4JError", CallingPrefix \o <<"o1.f">>),
     Raise("Py4JError", <<"Answer", "from", "Java", "side", "is", "empty">>),
     Raise("Py4JNetworkError",
           <<"An", "error", "occurred", "while", "trying", "to", "connect">>),
     Raise("ValueError", <<"min", "must", "be", "less", "than", "max">>),
     Raise("FatalError", <<"Hail", "Context", "has", "already", "been", "created">>)}

(* `raise FatalError(... % (..., Env.hc().version, ...))`: the message is  *)
(* built first, and building it reads Env.hc().                            *)
RaiseFatal(e, cs) ==
    IF Env_hc(e).exc # "none" THEN Raises(NoContext, e, cs)
    ELSE Raises(FatalError, e, cs)

(* handle_py4j(func, *args, **kwargs)                                      *)
handle_py4j(f, e) ==
    IF f.kind = "return" THEN Returns(f.val, e, <<>>)
    ELSE IF IsInstance(f.type, "Py4JJavaError")
    THEN LET ju == Env_jutils(e)
             cs == <<RemoteCall("handleForPython", <<"java_exception">>),
                     RemoteCall("_1", <<>>), RemoteCall("_2", <<>>)>>
         IN  IF ju.exc # "none" THEN Raises(NoContext, ju.env, <<>>)
             ELSE RaiseFatal(ju.env, cs)
    ELSE IF IsInstance(f.type, "Py4JError")
    THEN IF StartsWith(f.msg, CallingPrefix) THEN RaiseFatal(e, <<>>)
         ELSE Raises(ExcOf(f), e, <<>>)
    ELSE Raises(ExcOf(f), e, <<>>)

Access(op, r) ==
    /\ env' = r.env
    /\ last' = Call(op, <<>>, r)
    /\ UNCHANGED <<dist, instances>>

CallEnvJvm == Access("Env.jvm", Env_jvm(env))
CallEnvGateway == Access("Env.gateway", Env_gateway(env))
CallEnvHc == Access("Env.hc", Env_hc(env))
CallEnvHail == Access("Env.hail", Env_hail(env))
CallEnvJutils == Access("Env.jutils", Env_jutils(env))

(* A call of a function wrapped by handle_py4j. A py4j error comes from a  *)
(* call across the bridge, so it needs the JVM handle.                     *)
CallWrapped ==
    \E f \in FuncOutcomes :
        /\ IsInstance(f.type, "Py4JError") => env.jvm # None
        /\ LET r == handle_py4j(f, env)
           IN  /\ env' = r.env
               /\ last' = Call("handle_py4j", <<f>>, r)
        /\ UNCHANGED <<dist, instances>>

InitEnv == env = EnvInit /\ instances = {} /\ dist = NoDist /\ last = NoCall

NextEnv ==
    \/ \E f \in EnvFields : SetEnv(f)
    \/ CallEnvJvm
    \/ CallEnvGateway
    \/ CallEnvHc
    \/ CallEnvHail
    \/ CallEnvJutils
    \/ CallWrapped

SpecEnv == InitEnv /\ [][NextEnv]_vars

AccessorHolds(op, f) ==
    last'.op = op =>
        /\ env' = env
        /\ (last'.exc = NoContext) <=> (env[f] = None)
        /\ env[f] # None => last'.exc = "none" /\ last'.ret = <<env[f]>>
        /\ last'.exc \in {"none", NoContext}

(* C7: Env.jvm(), Env.gateway() and Env.hc() each raise EnvironmentError   *)
(* exactly when their own handle is unset and otherwise return it, and     *)
(* change no Env field either way.                                         *)
C7_AccessorsRaiseIffUnset ==
    [][/\ AccessorHolds("Env.jvm", "jvm")
       /\ AccessorHolds("Env.gateway", "gateway")
       /\ AccessorHolds("Env.hc", "hc")]_vars

C7_Witness ==
    /\ last.op = "Env.gateway"
    /\ last.exc = NoContext
    /\ env.jvm # None
    /\ env.hc # None

(* C8: a function wrapped by handle_py4j returns the function's result     *)
(* when it does not raise, raises FatalError for a Py4JJavaError and for a *)
(* Py4JError whose first argument starts with 'An error occurred while     *)
(* calling', re-raises any other Py4JError and lets every other exception  *)
(* propagate unchanged.                                                    *)
C8_WrappedOutcome ==
    last.op = "handle_py4j" =>
        LET f == last.args[1]
        IN  IF f.kind = "return" THEN last.exc = "none" /\ last.ret = <<f.val>>
            ELSE IF f.type = "Py4JJavaError" THEN last.exc = FatalError
            ELSE IF IsInstance(f.type, "Py4JError") /\ StartsWith(f.msg, CallingPrefix)
            THEN last.exc = FatalError
            ELSE last.exc = ExcOf(f)

(* With the utils package and the context handle available the wrapper    *)
(* maps every outcome as C8 says.                                          *)
WrappedOutcomeWithContext ==
    (/\ last.op = "handle_py4j"
     /\ env.hc # None) =>
        C8_WrappedOutcome

-----------------------------------------------------------------------------
(* The type tags (expr.py).                                                *)

MaxLen == 2
MaxDepth == 2

(* A Python value is <<type name, payload>>: a number for int, long, float *)
(* and bool, the text for str and unicode, the sequence of a list, the set *)
(* of a set, the set of <<key, value>> pairs of a dict, an object number   *)
(* for an instance of a hail.representation class.                         *)
NoneV == <<"NoneType", 0>>

ReprClasses == {"Variant", "AltAllele", "Genotype", "Call", "Locus", "Interval"}

(* bool(v): None, zero, the empty text and the empty containers are false; *)
(* an object of a class without __nonzero__ and __len__ is true.           *)
Truthy(v) ==
    CASE v[1] = "NoneType" -> FALSE
      [] v[1] \in {"int", "long", "float", "bool"} -> v[2] # 0
      [] v[1] \in {"str", "unicode"} -> v[2] # ""
      [] v[1] = "list" -> v[2] # <<>>
      [] v[1] \in {"set", "dict"} -> v[2] # {}
      [] OTHER -> TRUE

(* isinstance(v, c): bool is a subclass of int.                            *)
isinstance(v, c) == v[1] = c \/ (c = "int" /\ v[1] = "bool")

(* The elements of a set in the order an iteration meets them.             *)
RECURSIVE SetToSeq(_)
SetToSeq(S) ==
    IF S = {} THEN <<>>
    ELSE LET x == CHOOSE y \in S : TRUE IN <<x>> \o SetToSeq(S \ {x})

(* `for elt in v`: what the iteration yields; a value that is not iterable *)
(* raises TypeError.                                                       *)
Iterable(v) == v[1] \in {"list", "set", "dict", "str", "unicode"}

Iter(v) ==
    CASE v[1] = "list" -> v[2]
      [] v[1] = "set" -> SetToSeq(v[2])
      [] v[1] = "dict" -> SetToSeq({kv[1] : kv \in v[2]})
      [] v[1] \in {"str", "unicode"} -> IF v[2] = "" THEN <<>> ELSE <<v>>

(* The singleton tags and the Python classes each accepts.                 *)
ScalarTags ==
    {"TInt", "TLong", "TFloat", "TDouble", "TString", "TBoolean", "TVariant",
     "TAltAllele", "TGenotype", "TCall", "TLocus", "TInterval"}

Accepts(cls) ==
    CASE cls = "TInt" -> {"int"}
      [] cls = "TLong" -> {"long", "int"}
      [] cls = "TFloat" -> {"float"}
      [] cls = "TDouble" -> {"float"}
      [] cls = "TString" -> {"str", "unicode"}
      [] cls = "TBoolean" -> {"bool"}
      [] cls = "TVariant" -> {"Variant"}
      [] cls = "TAltAllele" -> {"AltAllele"}
      [] cls = "TGenotype" -> {"Genotype"}
      [] cls = "TCall" -> {"Call"}
      [] cls = "TLocus" -> {"Locus"}
      [] cls = "TInterval" -> {"Interval"}

(* scala_object(Env.hail().expr, name): the companion object's handle.     *)
scala_object(name) == [cn |-> "is.hail.expr." \o name \o "$"]

(* TInt.__init__ ... TInterval.__init__                                    *)
Singleton_init(cls) == [cls |-> cls, jtype |-> scala_object(cls)]

(* TArray.__init__                                                         *)
TArray_init(element_type) ==
    [cls |-> "TArray", element_type |-> element_type,
     jtype |-> [cn |-> "is.hail.expr.TArray", elementType |-> element_type.jtype]]

(* TSet.__init__                                                           *)
TSet_init(element_type) ==
    [cls |-> "TSet", element_type |-> element_type,
     jtype |-> [cn |-> "is.hail.expr.TSet", elementType |-> element_type.jtype]]

(* TDict.__init__                                                          *)
TDict_init(key_type, value_type) ==
    [cls |-> "TDict", key_type |-> key_type, value_type |-> value_type,
     jtype |-> [cn |-> "is.hail.expr.TDict", keyType |-> key_type.jtype,
                valueType |-> value_type.jtype]]

TypeCheckError == "TypeCheckError"

(* TInt._typecheck ... TInterval._typecheck                                *)
Scalar_typecheck(t, annotation) ==
    IF Truthy(annotation) /\ ~\E c \in Accepts(t.cls) : isinstance(annotation, c)
    THEN TypeCheckError
    ELSE "none"

RECURSIVE Type_typecheck(_, _)

(* TArray._typecheck                                                       *)
TArray_typecheck(t, annotation) ==
    IF Truthy(annotation)
    THEN IF ~isinstance(annotation, "list") THEN TypeCheckError
         ELSE IF \E i \in 1..Len(annotation[2]) :
                    Type_typecheck(t.element_type, annotation[2][i]) # "none"
         THEN TypeCheckError
         ELSE "none"
    ELSE "none"

(* TSet._typecheck                                                         *)
TSet_typecheck(t, annotation) ==
    IF Truthy(annotation)
    THEN IF ~isinstance(annotation, "set") THEN TypeCheckError
         ELSE IF \E elt \in annotation[2] :
                    Type_typecheck(t.element_type, elt) # "none"
         THEN TypeCheckError
         ELSE "none"
    ELSE "none"

(* TDict._typecheck                                                        *)
TDict_typecheck(t, annotation) ==
    IF Truthy(annotation)
    THEN IF ~isinstance(annotation, "dict") THEN TypeCheckError
         ELSE IF \E kv \in annotation[2] :
                    \/ Type_typecheck(t.key_type, kv[1]) # "none"
                    \/ Type_typecheck(t.value_type, kv[2]) # "none"
         THEN TypeCheckError
         ELSE "none"
    ELSE "none"

(* self._typecheck(annotation): the method of the tag's class.             *)
Type_typecheck(t, annotation) ==
    CASE t.cls \in ScalarTags -> Scalar_typecheck(t, annotation)
      [] t.cls = "TArray" -> TArray_typecheck(t, annotation)
      [] t.cls = "TSet" -> TSet_typecheck(t, annotation)
      [] t.cls = "TDict" -> TDict_typecheck(t, annotation)

-----------------------------------------------------------------------------
(* Marshaling. A value on the engine's side is a Python value passed       *)
(* through untranslated, a boxed number <<"java.lang.Integer", n>>, a      *)
(* collection <<"scala.IndexedSeq", seq>>, <<"scala.Set", set>> or         *)
(* <<"scala.Map", pairs>>, or the _jrep handle <<"jrep", object>> of a     *)
(* representation object. A handle is a py4j JavaObject and is true.       *)

(* The outcome of a conversion: exception, result, the remote calls made   *)
(* and whether Env.jutils() was read.                                      *)
Conv(exc, ret, calls, ju) == [exc |-> exc, ret |-> ret, calls |-> calls, ju |-> ju]

RECURSIVE Cat(_)
Cat(ss) == IF ss = <<>> THEN <<>> ELSE Head(ss) \o Cat(Tail(ss))

(* A list comprehension over conversions: the first element that raises    *)
(* ends it.                                                                *)
Comprehension(rs) ==
    IF \E i \in 1..Len(rs) : rs[i].exc # "none"
    THEN LET k == CHOOSE i \in 1..Len(rs) :
                     /\ rs[i].exc # "none"
                     /\ \A j \in 1..(i - 1) : rs[j].exc = "none"
         IN  Conv(rs[k].exc, NoneV, Cat([j \in 1..k |-> rs[j].calls]),
                  \E j \in 1..k : rs[j].ju)
    ELSE Conv("none", [j \in 1..Len(rs) |-> rs[j].ret],
              Cat([j \in 1..Len(rs) |-> rs[j].calls]),
              \E j \in 1..Len(rs) : rs[j].ju)

BoxClass(m) ==
    CASE m = "makeInt" -> "java.lang.Integer"
      [] m = "makeLong" -> "java.lang.Long"
      [] m = "makeDouble" -> "java.lang.Double"

(* Env.jutils().makeInt(annotation), makeLong, makeDouble: the engine      *)
(* boxes a number and rejects any other argument.                          *)
Box(m, annotation, e) ==
    IF Env_jutils(e).exc # "none" THEN Conv(NoContext, NoneV, <<>>, TRUE)
    ELSE IF annotation[1] \in {"int", "long", "float", "bool"}
    THEN Conv("none", <<BoxClass(m), annotation[2]>>,
              <<RemoteCall(m, <<annotation>>)>>, TRUE)
    ELSE Conv("Py4JError", NoneV, <<RemoteCall(m, <<annotation>>)>>, TRUE)

(* TInt._convert_to_j, TLong._convert_to_j, TDouble._convert_to_j          *)
Number_convert_to_j(m, annotation, e) ==
    IF Truthy(annotation) THEN Box(m, annotation, e)
    ELSE Conv("none", annotation, <<>>, FALSE)

(* TFloat._convert_to_j                                                    *)
TFloat_convert_to_j(annotation, e) == Conv("NotImplementedError", NoneV, <<>>, FALSE)

(* TString._convert_to_j, TBoolean._convert_to_j                           *)
Identity_convert_to_j(annotation, e) == Conv("none", annotation, <<>>, FALSE)

(* TVariant._convert_to_j ... TInterval._convert_to_j                      *)
Repr_convert_to_j(annotation, e) ==
    IF annotation # NoneV
    THEN IF annotation[1] \in ReprClasses
         THEN Conv("none", <<"jrep", annotation>>, <<>>, FALSE)
         ELSE Conv("AttributeError", NoneV, <<>>, FALSE)
    ELSE Conv("none", annotation, <<>>, FALSE)

RECURSIVE Type_convert_to_j(_, _, _)

(* TArray._convert_to_j: Env.jutils() is read before the comprehension.    *)
TArray_convert_to_j(t, annotation, e) ==
    IF annotation # NoneV
    THEN IF Env_jutils(e).exc # "none" THEN Conv(NoContext, NoneV, <<>>, TRUE)
         ELSE IF ~Iterable(annotation) THEN Conv("TypeError", NoneV, <<>>, TRUE)
         ELSE LET it == Iter(annotation)
                  c == Comprehension([i \in 1..Len(it) |->
                          Type_convert_to_j(t.element_type, it[i], e)])
              IN  IF c.exc # "none" THEN [c EXCEPT !.ju = TRUE]
                  ELSE Conv("none", <<"scala.IndexedSeq", c.ret>>,
                            c.calls \o <<RemoteCall("arrayListToISeq", <<c.ret>>)>>,
                            TRUE)
    ELSE Conv("none", annotation, <<>>, FALSE)

(* TSet._convert_to_j: jset reads Env.jutils() after the comprehension.    *)
TSet_convert_to_j(t, annotation, e) ==
    IF annotation # NoneV
    THEN IF ~Iterable(annotation) THEN Conv("TypeError", NoneV, <<>>, FALSE)
         ELSE LET it == Iter(annotation)
                  c == Comprehension([i \in 1..Len(it) |->
                          Type_convert_to_j(t.element_type, it[i], e)])
              IN  IF c.exc # "none" THEN c
                  ELSE IF Env_jutils(e).exc # "none"
                  THEN Conv(NoContext, NoneV, c.calls, TRUE)
                  ELSE Conv("none",
                            <<"scala.Set", {c.ret[i] : i \in 1..Len(c.ret)}>>,
                            c.calls \o <<RemoteCall("arrayListToSet", <<c.ret>>)>>,
                            TRUE)
    ELSE Conv("none", annotation, <<>>, FALSE)

(* A dict built from <<key, value>> pairs in order: a later pair replaces  *)
(* an earlier one with the same key.                                       *)
DictOf(ps) ==
    {ps[i] : i \in {i \in 1..Len(ps) :
                      \A j \in (i + 1)..Len(ps) : ps[j][1] # ps[i][1]}}

(* TDict._convert_to_j: only a dict has iteritems().                       *)
TDict_convert_to_j(t, annotation, e) ==
    IF annotation # NoneV
    THEN IF Env_jutils(e).exc # "none" THEN Conv(NoContext, NoneV, <<>>, TRUE)
         ELSE IF annotation[1] # "dict" THEN Conv("AttributeError", NoneV, <<>>, TRUE)
         ELSE LET it == SetToSeq(annotation[2])
                  c == Comprehension([i \in 1..(2 * Len(it)) |->
                          IF i % 2 = 1
                          THEN Type_convert_to_j(t.key_type, it[(i + 1) \div 2][1], e)
                          ELSE Type_convert_to_j(t.value_type, it[i \div 2][2], e)])
                  ps == [i \in 1..Len(it) |-> <<c.ret[2 * i - 1], c.ret[2 * i]>>]
              IN  IF c.exc # "none" THEN [c EXCEPT !.ju = TRUE]
                  ELSE Conv("none", <<"scala.Map", DictOf(ps)>>,
                            c.calls \o <<RemoteCall("javaMapToMap", <<DictOf(ps)>>)>>,
                            TRUE)
    ELSE Conv("none", annotation, <<>>, FALSE)

(* self._convert_to_j(annotation): the method of the tag's class.          *)
Type_convert_to_j(t, annotation, e) ==
    CASE t.cls = "TInt" -> Number_convert_to_j("makeInt", annotation, e)
      [] t.cls = "TLong" -> Number_convert_to_j("makeLong", annotation, e)
      [] t.cls = "TDouble" -> Number_convert_to_j("makeDouble", annotation, e)
      [] t.cls = "TFloat" -> TFloat_convert_to_j(annotation, e)
      [] t.cls \in {"TString", "TBoolean"} -> Identity_convert_to_j(annotation, e)
      [] t.cls = "TArray" -> TArray_convert_to_j(t, annotation, e)
      [] t.cls = "TSet" -> TSet_convert_to_j(t, annotation, e)
      [] t.cls = "TDict" -> TDict_convert_to_j(t, annotation, e)
      [] OTHER -> Repr_convert_to_j(annotation, e)

(* Env.jutils().iterableToArrayList(x): the elements of an engine          *)
(* collection as a list; any other argument is rejected.                   *)
iterableToArrayList(x, e) ==
    IF Env_jutils(e).exc # "none" THEN Conv(NoContext, NoneV, <<>>, TRUE)
    ELSE IF x[1] = "scala.IndexedSeq"
    THEN Conv("none", x[2], <<RemoteCall("iterableToArrayList", <<x>>)>>, TRUE)
    ELSE IF x[1] \in {"scala.Set", "scala.Map"}
    THEN Conv("none", SetToSeq(x[2]), <<RemoteCall("iterableToArrayList", <<x>>)>>, TRUE)
    ELSE Conv("Py4JError", NoneV, <<RemoteCall("iterableToArrayList", <<x>>)>>, TRUE)

(* TInt._convert_to_py ... TBoolean._convert_to_py                         *)
Identity_convert_to_py(annotation, e) == Conv("none", annotation, <<>>, FALSE)

(* TVariant._convert_to_py ... TInterval._convert_to_py                    *)
Repr_convert_to_py(annotation, e) ==
    IF Truthy(annotation)
    THEN IF annotation[1] = "jrep" THEN Conv("none", annotation[2], <<>>, FALSE)
         ELSE Conv("AttributeError", NoneV, <<>>, FALSE)
    ELSE Conv("none", annotation, <<>>, FALSE)

RECURSIVE Type_convert_to_py(_, _, _)

(* TArray._convert_to_py                                                   *)
TArray_convert_to_py(t, annotation, e) ==
    IF Truthy(annotation)
    THEN LET lst == iterableToArrayList(annotation, e)
             c == Comprehension([i \in 1..Len(lst.ret) |->
                     Type_convert_to_py(t.element_type, lst.ret[i], e)])
         IN  IF lst.exc # "none" THEN lst
             ELSE IF c.exc # "none" THEN Conv(c.exc, NoneV, lst.calls \o c.calls, TRUE)
             ELSE Conv("none", <<"list", c.ret>>, lst.calls \o c.calls, TRUE)
    ELSE Conv("none", annotation, <<>>, FALSE)

(* TSet._convert_to_py                                                     *)
TSet_convert_to_py(t, annotation, e) ==
    IF Truthy(annotation)
    THEN LET lst == iterableToArrayList(annotation, e)
             c == Comprehension([i \in 1..Len(lst.ret) |->
                     Type_convert_to_py(t.element_type, lst.ret[i], e)])
         IN  IF lst.exc # "none" THEN lst
             ELSE IF c.exc # "none" THEN Conv(c.exc, NoneV, lst.calls \o c.calls, TRUE)
             ELSE Conv("none", <<"set", {c.ret[i] : i \in 1..Len(c.ret)}>>,
                       lst.calls \o c.calls, TRUE)
    ELSE Conv("none", annotation, <<>>, FALSE)

(* TDict._convert_to_py: x._1() and x._2() need a pair.                    *)
TDict_convert_to_py(t, annotation, e) ==
    IF Truthy(annotation)
    THEN LET lst == iterableToArrayList(annotation, e)
             pairs == annotation[1] = "scala.Map"
             c == Comprehension([i \in 1..(2 * Len(lst.ret)) |->
                     IF i % 2 = 1
                     THEN Type_convert_to_py(t.key_type, lst.ret[(i + 1) \div 2][1], e)
                     ELSE Type_convert_to_py(t.value_type, lst.ret[i \div 2][2], e)])
             ps == [i \in 1..Len(lst.ret) |-> <<c.ret[2 * i - 1], c.ret[2 * i]>>]
         IN  IF lst.exc # "none" THEN lst
             ELSE IF ~pairs /\ lst.ret # <<>>
             THEN Conv("AttributeError", NoneV, lst.calls, TRUE)
             ELSE IF ~pairs THEN Conv("none", <<"dict", {}>>, lst.calls, TRUE)
             ELSE IF c.exc # "none" THEN Conv(c.exc, NoneV, lst.calls \o c.calls, TRUE)
             ELSE Conv("none", <<"dict", DictOf(ps)>>, lst.calls \o c.calls, TRUE)
    ELSE Conv("none", annotation, <<>>, FALSE)

(* self._convert_to_py(annotation): the method of the tag's class.         *)
Type_convert_to_py(t, annotation, e) ==
    CASE t.cls \in {"TInt", "TLong", "TFloat", "TDouble", "TString", "TBoolean"} ->
            Identity_convert_to_py(annotation, e)
      [] t.cls = "TArray" -> TArray_convert_to_py(t, annotation, e)
      [] t.cls = "TSet" -> TSet_convert_to_py(t, annotation, e)
      [] t.cls = "TDict" -> TDict_convert_to_py(t, annotation, e)
      [] OTHER -> Repr_convert_to_py(annotation, e)

(* t._convert_to_py(t._convert_to_j(v))                                    *)
RoundTrip(t, v, e) ==
    LET j == Type_convert_to_j(t, v, e)
        p == Type_convert_to_py(t, j.ret, e)
    IN  IF j.exc # "none" THEN j
        ELSE Conv(p.exc, p.ret, j.calls \o p.calls, j.ju \/ p.ju)

-----------------------------------------------------------------------------
(* Type._from_java. A remote type is [cn |-> canonical class name] with    *)
(* elementType, keyType and valueType, or fields, as its class has them.   *)

(* __singletons__                                                          *)
singletons ==
    [cn \in {"is.hail.expr." \o c \o "$" : c \in ScalarTags} |->
        CASE cn = "is.hail.expr.TInt$" -> "TInt"
          [] cn = "is.hail.expr.TLong$" -> "TLong"
          [] cn = "is.hail.expr.TFloat$" -> "TFloat"
          [] cn = "is.hail.expr.TDouble$" -> "TDouble"
          [] cn = "is.hail.expr.TBoolean$" -> "TBoolean"
          [] cn = "is.hail.expr.TString$" -> "TString"
          [] cn = "is.hail.expr.TVariant$" -> "TVariant"
          [] cn = "is.hail.expr.TAltAllele$" -> "TAltAllele"
          [] cn = "is.hail.expr.TLocus$" -> "TLocus"
          [] cn = "is.hail.expr.TGenotype$" -> "TGenotype"
          [] cn = "is.hail.expr.TCall$" -> "TCall"
          [] cn = "is.hail.expr.TInterval$" -> "TInterval"]

(* The outcome of _from_java: exception, the local type, and the world     *)
(* (Env and Singleton._instances) it leaves.                               *)
Mirror(exc, ret, w) == [exc |-> exc, ret |-> ret, w |-> w]
NoType == [cls |-> "None"]

(* Singleton.__call__: the class is instantiated on its first call only,   *)
(* and its __init__ reads Env.hail().                                      *)
Singleton_call(cls, w) ==
    IF cls \notin w.instances
    THEN LET h == Env_hail(w.env)
         IN  IF h.exc # "none" THEN Mirror(h.exc, NoType, w)
             ELSE Mirror("none", Singleton_init(cls),
                         [env |-> h.env, instances |-> w.instances \cup {cls}])
    ELSE Mirror("none", Singleton_init(cls), w)

RECURSIVE Type_from_java(_, _)

(* TArray._from_java                                                       *)
TArray_from_java(jtype, w) ==
    LET el == Type_from_java(jtype.elementType, w)
    IN  IF el.exc # "none" THEN el
        ELSE Mirror("none",
                    [cls |-> "TArray", element_type |-> el.ret, jtype |-> jtype], el.w)

(* TSet._from_java                                                         *)
TSet_from_java(jtype, w) ==
    LET el == Type_from_java(jtype.elementType, w)
    IN  IF el.exc # "none" THEN el
        ELSE Mirror("none",
                    [cls |-> "TSet", element_type |-> el.ret, jtype |-> jtype], el.w)

TDict_from_java_swapped(jtype, w) ==
    LET k == Type_from_java(jtype.keyType, w)
        v == Type_from_java(jtype.valueType, k.w)
    IN  IF k.exc # "none" THEN k
        ELSE IF v.exc # "none" THEN v
        ELSE Mirror("none",
                    [cls |-> "TDict", key_type |-> v.ret, value_type |-> k.ret,
                     jtype |-> jtype], v.w)

(* TDict._from_java                                                        *)
TDict_from_java(jtype, w) ==
    LET k == Type_from_java(jtype.keyType, w)
        v == Type_from_java(jtype.valueType, k.w)
    IN  IF k.exc # "none" THEN k
        ELSE IF v.exc # "none" THEN v
        ELSE Mirror("none",
                    [cls |-> "TDict", key_type |-> k.ret, value_type |-> v.ret,
                     jtype |-> jtype], v.w)

(* Field.__init__                                                          *)
Field(name, typ, attributes) ==
    [name |-> name, typ |-> typ, attributes |-> attributes]

(* The comprehension of TStruct._init_from_java over jfields[i..], with    *)
(* the fields built so far.                                                *)
RECURSIVE FieldsFromJava(_, _, _, _)
FieldsFromJava(jfields, i, acc, w) ==
    IF i > Len(jfields) THEN Mirror("none", acc, w)
    ELSE LET f == jfields[i]
             typ == Type_from_java(f.typ, w)
         IN  IF typ.exc # "none" THEN typ
             ELSE FieldsFromJava(jfields, i + 1,
                                 Append(acc, Field(f.name, typ.ret, f.attrs)), typ.w)

(* TStruct._init_from_java                                                 *)
TStruct_init_from_java(jtype, w) ==
    LET ju == Env_jutils(w.env)
    IN  IF ju.exc # "none" THEN Mirror(ju.exc, NoType, w)
        ELSE FieldsFromJava(jtype.fields, 1, <<>>, [w EXCEPT !.env = ju.env])

(* TStruct._from_java                                                      *)
TStruct_from_java(jtype, w) ==
    LET fs == TStruct_init_from_java(jtype, w)
    IN  IF fs.exc # "none" THEN fs
        ELSE Mirror("none", [cls |-> "TStruct", fields |-> fs.ret, jtype |-> jtype],
                    fs.w)

(* Type._from_java                                                         *)
Type_from_java(jtype, w) ==
    LET class_name == jtype.cn
    IN  IF class_name \in DOMAIN singletons
        THEN Singleton_call(singletons[class_name], w)
        ELSE IF class_name = "is.hail.expr.TArray" THEN TArray_from_java(jtype, w)
        ELSE IF class_name = "is.hail.expr.TSet" THEN TSet_from_java(jtype, w)
        ELSE IF class_name = "is.hail.expr.TDict" THEN TDict_from_java(jtype, w)
        ELSE IF class_name = "is.hail.expr.TStruct" THEN TStruct_from_java(jtype, w)
        ELSE Mirror("TypeError", NoType, w)

(* The remote types tried: every singleton class, two classes the layer    *)
(* does not mirror, and the four containers over them to depth MaxDepth.   *)
SingletonNames == {"is.hail.expr." \o c \o "$" : c \in ScalarTags}
UnknownNames == {"is.hail.expr.TAggregable", "is.hail.expr.TInt"}
JLeaves == {[cn |-> n] : n \in SingletonNames \cup UnknownNames}
JSideLeaves == {[cn |-> "is.hail.expr.TString$"], [cn |-> "is.hail.expr.TAggregable"]}

JArray(x) == [cn |-> "is.hail.expr.TArray", elementType |-> x]
JSet(x) == [cn |-> "is.hail.expr.TSet", elementType |-> x]
JDict(k, v) == [cn |-> "is.hail.expr.TDict", keyType |-> k, valueType |-> v]
JField(n, x) == [name |-> n, typ |-> x, attrs |-> {}]
JStruct(fs) == [cn |-> "is.hail.expr.TStruct", fields |-> fs]

RECURSIVE JTypes(_)
JTypes(d) ==
    IF d = 0 THEN JLeaves
    ELSE LET below == JTypes(d - 1)
         IN  JLeaves
                \cup {JArray(x) : x \in below}
                \cup {JSet(x) : x \in below}
                \cup {JDict(k, x) : k \in JSideLeaves, x \in below}
                \cup {JDict(x, k) : k \in JSideLeaves, x \in below}
                \cup {JStruct(<<>>)}
                \cup {JStruct(<<JField("a", x)>>) : x \in below}
                \cup {JStruct(<<JField("a", k), JField("b", x)>>) :
                        k \in JSideLeaves, x \in below}

-----------------------------------------------------------------------------
(* The values and tags tried.                                              *)

Scalars ==
    {NoneV, <<"int", 0>>, <<"int", 7>>, <<"long", 0>>, <<"long", 7>>,
     <<"float", 0>>, <<"float", 2>>, <<"str", "">>, <<"str", "a">>,
     <<"unicode", "a">>, <<"bool", 0>>, <<"bool", 1>>}
        \cup {<<c, 1>> : c \in ReprClasses}

Elems ==
    {NoneV, <<"str", "">>, <<"str", "a">>, <<"bool", 0>>, <<"bool", 1>>, <<"int", 7>>}

Keys == {<<"str", "">>, <<"str", "a">>, <<"bool", 1>>, <<"int", 7>>}
Values == {<<"str", "a">>, <<"bool", 0>>, <<"int", 7>>}

SeqsUpTo(S, n) == UNION {[1..k -> S] : k \in 0..n}
SubsetsUpTo(S, n) == {X \in SUBSET S : Cardinality(X) <= n}

Lists == {<<"list", q>> : q \in SeqsUpTo(Elems, MaxLen)}
NestedLists ==
    {<<"list", q>> :
        q \in SeqsUpTo({NoneV, <<"list", <<>>>>, <<"list", <<<<"str", "a">>>>>>,
                        <<"list", <<<<"int", 7>>>>>>, <<"str", "a">>}, MaxLen)}
Sets == {<<"set", X>> : X \in SubsetsUpTo(Elems, MaxLen)}
Dicts ==
    {<<"dict", D>> :
        D \in {X \in SubsetsUpTo(Keys \X Values, MaxLen) :
                 \A p \in X, q \in X : p[1] = q[1] => p = q}}

PyValues == Scalars \cup Lists \cup NestedLists \cup Sets \cup Dicts

ScalarTypes == {Singleton_init(c) : c \in ScalarTags}
IdentityTypes == {Singleton_init("TString"), Singleton_init("TBoolean")}
ElementTypes == IdentityTypes \cup {Singleton_init("TInt")}
ContainerTypes ==
    {TArray_init(t) : t \in ElementTypes \cup {TArray_init(Singleton_init("TString"))}}
        \cup {TSet_init(t) : t \in ElementTypes}
        \cup {TDict_init(k, v) : k \in IdentityTypes, v \in ElementTypes}
Types == ScalarTypes \cup ContainerTypes

(* The singleton classes a tag is built from.                              *)
RECURSIVE TagsOf(_)
TagsOf(t) ==
    CASE t.cls \in ScalarTags -> {t.cls}
      [] t.cls \in {"TArray", "TSet"} -> TagsOf(t.element_type)
      [] t.cls = "TDict" -> TagsOf(t.key_type) \cup TagsOf(t.value_type)

Pending(op, args) ==
    [op |-> op, args |-> args, exc |-> "pending", ret |-> <<>>, calls |-> <<>>]

(* Building the tag: each singleton class is instantiated once, and every  *)
(* __init__ reads Env.hail().                                              *)
Built(t) ==
    /\ Env_hail(env).exc = "none"
    /\ instances' = instances \cup TagsOf(t)
    /\ UNCHANGED dist

(* t._typecheck(v)                                                         *)
CallTypecheck ==
    /\ last.op = "_typecheck" /\ last.exc = "pending"
    /\ Built(last.args[1])
    /\ env' = Env_hail(env).env
    /\ last' = [last EXCEPT !.exc = Type_typecheck(last.args[1], last.args[2])]

Converted(r) ==
    /\ env' = IF r.ju THEN Env_jutils(Env_hail(env).env).env ELSE Env_hail(env).env
    /\ last' = [last EXCEPT !.exc = r.exc,
                             !.ret = IF r.exc = "none" THEN <<r.ret>> ELSE <<>>,
                             !.calls = r.calls]

(* t._convert_to_j(v)                                                      *)
CallConvertToJ ==
    /\ last.op = "_convert_to_j" /\ last.exc = "pending"
    /\ Built(last.args[1])
    /\ Converted(Type_convert_to_j(last.args[1], last.args[2], Env_hail(env).env))

(* t._convert_to_py(t._convert_to_j(v))                                    *)
CallRoundTrip ==
    /\ last.op = "round trip" /\ last.exc = "pending"
    /\ Built(last.args[1])
    /\ Converted(RoundTrip(last.args[1], last.args[2], Env_hail(env).env))

(* Type._from_java(jtype)                                                  *)
CallFromJava ==
    /\ last.op = "_from_java" /\ last.exc = "pending"
    /\ LET r == Type_from_java(last.args[1], [env |-> env, instances |-> instances])
       IN  /\ env' = r.w.env
           /\ instances' = r.w.instances
           /\ last' = [last EXCEPT !.exc = r.exc,
                                    !.ret = IF r.exc = "none" THEN <<r.ret>> ELSE <<>>]
    /\ UNCHANGED dist

(* A Hail context exists; a tag and a value are chosen and one method of   *)
(* the tag is called on the value.                                         *)
ContextReady == [EnvInit EXCEPT !.jvm = JvmHandle, !.gateway = GatewayHandle,
                                !.hc = HcHandle]

Init ==
    /\ env = ContextReady
    /\ instances = {}
    /\ dist = NoDist
    /\ last \in {Pending("_typecheck", <<t, v>>) : t \in Types, v \in PyValues}
            \cup {Pending("_convert_to_j", <<t, v>>) : t \in Types, v \in PyValues}
            \cup {Pending("round trip", <<t, v>>) : t \in ContainerTypes, v \in PyValues}
            \cup {Pending("_from_java", <<jt>>) : jt \in JTypes(MaxDepth)}

Next ==
    \/ CallTypecheck
    \/ CallConvertToJ
    \/ CallRoundTrip
    \/ CallFromJava

Spec == Init /\ [][Next]_vars

-----------------------------------------------------------------------------
Done(op) == last.op = op /\ last.exc # "pending"

(* The value is of the Python type that corresponds to the tag.            *)
OfType(cls, v) == \E c \in Accepts(cls) : isinstance(v, c)

(* C1: for each scalar tag and every value v, _typecheck(v) raises         *)
(* TypeCheckError if v is not of the tag's Python type and returns without *)
(* raising if v is None or of that type.                                   *)
C1_ScalarTypecheck ==
    (Done("_typecheck") /\ last.args[1].cls \in ScalarTags) =>
        LET cls == last.args[1].cls
            v == last.args[2]
        IN  (last.exc = "none") <=> (v = NoneV \/ OfType(cls, v))

(* C9: TArray(t), TSet(t) and TDict(k, t) accept v if and only if v is     *)
(* None or a list (a set, a dict) all of whose elements (keys and values)  *)
(* pass the element (key and value) types' _typecheck; every other v       *)
(* raises TypeCheckError.                                                  *)
C9_ContainerTypecheck ==
    (Done("_typecheck") /\ last.args[1].cls \in {"TArray", "TSet", "TDict"}) =>
        LET t == last.args[1]
            v == last.args[2]
            ok == CASE t.cls = "TArray" ->
                         /\ v[1] = "list"
                         /\ \A i \in 1..Len(v[2]) :
                               Type_typecheck(t.element_type, v[2][i]) = "none"
                    [] t.cls = "TSet" ->
                         /\ v[1] = "set"
                         /\ \A x \in v[2] : Type_typecheck(t.element_type, x) = "none"
                    [] t.cls = "TDict" ->
                         /\ v[1] = "dict"
                         /\ \A kv \in v[2] :
                               /\ Type_typecheck(t.key_type, kv[1]) = "none"
                               /\ Type_typecheck(t.value_type, kv[2]) = "none"
        IN  /\ last.exc \in {"none", TypeCheckError}
            /\ (last.exc = "none") <=> (v = NoneV \/ ok)

(* TArray, TSet or TDict directly over TString and TBoolean.               *)
OverIdentityTypes(t) ==
    \/ t.cls \in {"TArray", "TSet"} /\ t.element_type \in IdentityTypes
    \/ t.cls = "TDict" /\ t.key_type \in IdentityTypes /\ t.value_type \in IdentityTypes

(* C10: for TInt, TLong and TDouble, _convert_to_j returns its argument    *)
(* untranslated only when the argument is None; every other value of the   *)
(* tag's type, 0 and 0.0 included, goes through the remote boxing call.    *)
C10_NumbersBoxedUnlessNone ==
    (Done("_convert_to_j") /\ last.args[1].cls \in {"TInt", "TLong", "TDouble"}) =>
        LET cls == last.args[1].cls
            v == last.args[2]
            m == CASE cls = "TInt" -> "makeInt"
                   [] cls = "TLong" -> "makeLong"
                   [] cls = "TDouble" -> "makeDouble"
        IN  /\ v = NoneV => last.ret = <<v>> /\ last.calls = <<>>
            /\ (v # NoneV /\ OfType(cls, v)) =>
                  /\ last.exc = "none"
                  /\ last.calls = <<RemoteCall(m, <<v>>)>>
                  /\ last.ret = <<<<BoxClass(m), v[2]>>>>

(* C2: for TArray, TSet and TDict over TString and TBoolean and every      *)
(* value v other than None that passes _typecheck, the empty list, set and *)
(* dict included, _convert_to_py(_convert_to_j(v)) equals v.               *)
C2_RoundTrip ==
    (/\ Done("round trip")
     /\ OverIdentityTypes(last.args[1])
     /\ last.args[2] # NoneV
     /\ Type_typecheck(last.args[1], last.args[2]) = "none") =>
        last.exc = "none" /\ last.ret = <<last.args[2]>>

(* Round trips of real lists, sets and dicts succeed.                      *)
RoundTripOfContainers ==
    (/\ Done("round trip")
     /\ OverIdentityTypes(last.args[1])
     /\ last.args[2][1] = (CASE last.args[1].cls = "TArray" -> "list"
                             [] last.args[1].cls = "TSet" -> "set"
                             [] last.args[1].cls = "TDict" -> "dict")
     /\ Type_typecheck(last.args[1], last.args[2]) = "none") =>
        last.exc = "none" /\ last.ret = <<last.args[2]>>

(* Every class name in the remote type, at any depth, is mirrored.         *)
RECURSIVE AllMirrored(_)
AllMirrored(jt) ==
    CASE jt.cn \in SingletonNames -> TRUE
      [] jt.cn \in {"is.hail.expr.TArray", "is.hail.expr.TSet"} ->
            AllMirrored(jt.elementType)
      [] jt.cn = "is.hail.expr.TDict" ->
            AllMirrored(jt.keyType) /\ AllMirrored(jt.valueType)
      [] jt.cn = "is.hail.expr.TStruct" ->
            \A i \in 1..Len(jt.fields) : AllMirrored(jt.fields[i].typ)
      [] OTHER -> FALSE

(* The local type t is the mirror of the remote type jt.                   *)
RECURSIVE MirrorOf(_, _)
MirrorOf(t, jt) ==
    CASE jt.cn \in SingletonNames ->
            /\ t.cls \in ScalarTags
            /\ jt.cn = "is.hail.expr." \o t.cls \o "$"
            /\ t.jtype = jt
            /\ t.cls \in instances
      [] jt.cn = "is.hail.expr.TArray" ->
            /\ t.cls = "TArray" /\ t.jtype = jt
            /\ MirrorOf(t.element_type, jt.elementType)
      [] jt.cn = "is.hail.expr.TSet" ->
            /\ t.cls = "TSet" /\ t.jtype = jt
            /\ MirrorOf(t.element_type, jt.elementType)
      [] jt.cn = "is.hail.expr.TDict" ->
            /\ t.cls = "TDict" /\ t.jtype = jt
            /\ MirrorOf(t.key_type, jt.keyType)
            /\ MirrorOf(t.value_type, jt.valueType)
      [] jt.cn = "is.hail.expr.TStruct" ->
            /\ t.cls = "TStruct" /\ t.jtype = jt
            /\ Len(t.fields) = Len(jt.fields)
            /\ \A i \in 1..Len(jt.fields) :
                  /\ t.fields[i].name = jt.fields[i].name
                  /\ MirrorOf(t.fields[i].typ, jt.fields[i].typ)
      [] OTHER -> FALSE

(* C3: Type._from_java returns the singleton instance for each of the 12   *)
(* singleton class names; for TArray, TSet, TDict and TStruct a local type *)
(* that keeps the remote handle and whose element, key, value and field    *)
(* types mirror the remote components in order; and raises TypeError,      *)
(* returning no type, exactly when some class name at any depth is none of *)
(* these.                                                                  *)
C3_FromJavaMirrors ==
    Done("_from_java") =>
        LET jt == last.args[1]
        IN  IF AllMirrored(jt)
            THEN last.exc = "none" /\ Len(last.ret) = 1 /\ MirrorOf(last.ret[1], jt)
            ELSE last.exc = "TypeError" /\ last.ret = <<>>

C3_Witness ==
    /\ Done("_from_java")
    /\ last.exc = "none"
    /\ last.args[1].cn = "is.hail.expr.TDict"
    /\ last.args[1].valueType.cn = "is.hail.expr.TStruct"
    /\ Len(last.args[1].valueType.fields) = 2
    /\ last.ret[1].key_type # last.ret[1].value_type.fields[2].typ

====
